---- MODULE Spec2Model ----
(***************************************************************************)
(* Model of the IAMAI on-chain programs (Anchor / Solana):                 *)
(*   contracts/token            iamai_token      (TokenSpec)               *)
(*   iamai-dao/.../governance   iamai_governance (GovSpec, GovLiveSpec)    *)
(*   iamai-dao/.../marketplace  iamai_marketplace (MarketSpec)             *)
(*   iamai-dao/.../staking      iamai_staking    (StakeSpec)               *)
(*                                                                         *)
(* Every instruction is one atomic transaction: when it returns an error   *)
(* (or panics) the runtime discards every account write it made, so a      *)
(* failed call changes nothing but the recorded outcome.                   *)
(*                                                                         *)
(* u64 is modelled as an unsigned integer of U64Bits bits.  Plain + - *    *)
(* on u64 either panic (overflow-checks = true) or wrap (release profile   *)
(* without overflow checks); the build profile is not part of the sources, *)
(* so overflow_checks is chosen nondeterministically in Init.              *)
(***************************************************************************)
EXTENDS Integers, Naturals, Sequences, FiniteSets, TLC

VARIABLES
    overflow_checks,   \* build profile: TRUE = arithmetic overflow panics
    token_info,        \* the TokenInfo account
    supply,            \* SPL mint supply, per mint
    balance,           \* SPL token account amount, per token account
    token_last,        \* outcome of the last iamai_token instruction
    token_calls,       \* number of iamai_token instructions submitted
    now,               \* Clock::get()?.unix_timestamp
    governance,        \* the Governance account
    proposals,         \* Proposal accounts
    vote_records,      \* VoteRecord PDAs, keyed by (proposal, voter)
    gov_last,          \* outcome of the last iamai_governance instruction
    marketplace,       \* the Marketplace account
    listings,          \* ModelListing accounts
    purchase_records,  \* PurchaseRecord PDAs, keyed by (listing, buyer)
    model_reviews,     \* ModelReview PDAs, keyed by (listing, reviewer)
    wallet,            \* SPL token account amount of the marketplace users
    market_last,       \* outcome of the last iamai_marketplace instruction
    staking_pool,      \* the StakingPool account
    staking_tiers,     \* StakingTier accounts
    user_stakes,       \* UserStake PDAs, keyed by user (one pool)
    stake_wallet,      \* SPL token account amount of the vault and the stakers
    stake_last,        \* outcome of the last iamai_staking instruction
    stake_calls        \* number of iamai_staking instructions submitted

token_vars == <<token_info, supply, balance, token_last, token_calls>>
gov_vars == <<now, governance, proposals, vote_records, gov_last>>
market_vars == <<marketplace, listings, purchase_records, model_reviews, wallet,
                 market_last>>
stake_vars == <<staking_pool, staking_tiers, user_stakes, stake_wallet, stake_last,
                stake_calls>>
vars == <<overflow_checks, token_info, supply, balance, token_last, token_calls,
          now, governance, proposals, vote_records, gov_last,
          marketplace, listings, purchase_records, model_reviews, wallet,
          market_last,
          staking_pool, staking_tiers, user_stakes, stake_wallet, stake_last,
          stake_calls>>

----------------------------------------------------------------------------
(* Bounds *)

U64Bits == 24
PreExisting == 3
MaxTime == 2
MaxTokenCalls == 4
MaxStakeCalls == 5

U64Modulus == 2 ^ U64Bits
U64Max == U64Modulus - 1
HalfRange == 2 ^ (U64Bits - 1)

----------------------------------------------------------------------------
(* Rust u64 arithmetic *)

Overflows(x) == x < 0 \/ x > U64Max

Wrap(x) == x % U64Modulus

----------------------------------------------------------------------------
(* SPL token program (the transfer capability) *)

Mints == {"IAMAI", "OTHER"}

TokenAccounts == {"holder", "recipient", "treasury", "foreign"}

AccountMint(a) == IF a = "foreign" THEN "OTHER" ELSE "IAMAI"

HolderOf(m) == IF m = "OTHER" THEN "foreign" ELSE "holder"

\* token::mint_to: checked_add on the destination amount and the supply
MintToErr(sup, bal, m, to, amount) ==
    IF AccountMint(to) # m THEN "MintMismatch"
    ELSE IF Overflows(bal[to] + amount) \/ Overflows(sup[m] + amount)
         THEN "TokenOverflow"
         ELSE "Ok"

MintToSupply(sup, m, amount) == [sup EXCEPT ![m] = @ + amount]

MintToBalance(bal, to, amount) == [bal EXCEPT ![to] = @ + amount]

\* token::burn: the source must hold the amount
BurnErr(sup, bal, m, from, amount) ==
    IF AccountMint(from) # m THEN "MintMismatch"
    ELSE IF bal[from] < amount THEN "InsufficientFunds"
         ELSE "Ok"

BurnSupply(sup, m, amount) == [sup EXCEPT ![m] = @ - amount]

BurnBalance(bal, from, amount) == [bal EXCEPT ![from] = @ - amount]

\* token::transfer
TransferErr(bal, from, to, amount) ==
    IF AccountMint(from) # AccountMint(to) THEN "MintMismatch"
    ELSE IF bal[from] < amount THEN "InsufficientFunds"
    ELSE IF from # to /\ Overflows(bal[to] + amount) THEN "TokenOverflow"
         ELSE "Ok"

TransferBalance(bal, from, to, amount) ==
    IF from = to THEN bal
    ELSE [bal EXCEPT ![from] = @ - amount, ![to] = @ + amount]

----------------------------------------------------------------------------
(* iamai_token *)

TransferFeeBasisPoints == 10
BpsDenominator == 10000

Supplies == {2, U64Max}

MintAmounts == {1, 2, U64Max - PreExisting, U64Max}

TransferAmounts == {0, 1000, 1999, HalfRange - 1}

NoTokenInfo == [is_initialized |-> FALSE, total_supply |-> 0,
                circulating_supply |-> 0, transfer_fee_basis_points |-> 0]

NoCall == [op |-> "none", err |-> "Ok"]

TokenInit ==
    /\ token_info = NoTokenInfo
    /\ supply = [m \in Mints |-> IF m = "OTHER" THEN PreExisting ELSE 0]
    /\ balance = [a \in TokenAccounts |-> IF a = "foreign" THEN PreExisting ELSE 0]
    /\ token_last = NoCall
    /\ token_calls = 0

\* Outcome record of a call; the pre-state is the state the call ran in.
TokenOutcome(op, m, amount, err, fee, sent) ==
    [op |-> op, mint |-> m, amount |-> amount, err |-> err,
     fee |-> fee, sent |-> sent,
     pre_info |-> token_info, pre_balance |-> balance, pre_supply |-> supply]

initialize_token(total_supply) ==
    IF token_info.is_initialized
    THEN \* #[account(init)]: the account already exists
         /\ token_last' = TokenOutcome("initialize_token", "IAMAI", total_supply,
                                       "AccountAlreadyInUse", 0, 0)
         /\ UNCHANGED <<token_info, supply, balance>>
    ELSE /\ token_info' = [is_initialized |-> TRUE,
                           total_supply |-> total_supply,
                           circulating_supply |-> 0,
                           transfer_fee_basis_points |-> TransferFeeBasisPoints]
         /\ token_last' = TokenOutcome("initialize_token", "IAMAI", total_supply,
                                       "Ok", 0, 0)
         /\ UNCHANGED <<supply, balance>>

\* The error mint_tokens returns, in the order the handler reaches them.
MintTokensErr(m, amount) ==
    LET sum == token_info.circulating_supply + amount
        to == HolderOf(m)
    IN  IF ~token_info.is_initialized THEN "AccountNotInitialized"
        ELSE IF Overflows(sum) /\ overflow_checks THEN "Panic"
        ELSE IF ~(Wrap(sum) <= token_info.total_supply) THEN "ExceedsMaxSupply"
        ELSE MintToErr(supply, balance, m, to, amount)

mint_tokens(m, amount) ==
    LET err == MintTokensErr(m, amount)
        to == HolderOf(m)
    IN  /\ token_last' = TokenOutcome("mint_tokens", m, amount, err, 0, 0)
        /\ IF err = "Ok"
           THEN /\ token_info' = [token_info EXCEPT !.circulating_supply =
                                     Wrap(@ + amount)]
                /\ supply' = MintToSupply(supply, m, amount)
                /\ balance' = MintToBalance(balance, to, amount)
           ELSE UNCHANGED <<token_info, supply, balance>>

BurnTokensErr(m, amount) ==
    LET diff == token_info.circulating_supply - amount
        from == HolderOf(m)
    IN  IF ~token_info.is_initialized THEN "AccountNotInitialized"
        ELSE IF Overflows(diff) /\ overflow_checks THEN "Panic"
        ELSE BurnErr(supply, balance, m, from, amount)

burn_tokens(m, amount) ==
    LET err == BurnTokensErr(m, amount)
        from == HolderOf(m)
    IN  /\ token_last' = TokenOutcome("burn_tokens", m, amount, err, 0, 0)
        /\ IF err = "Ok"
           THEN /\ token_info' = [token_info EXCEPT !.circulating_supply =
                                     Wrap(@ - amount)]
                /\ supply' = BurnSupply(supply, m, amount)
                /\ balance' = BurnBalance(balance, from, amount)
           ELSE UNCHANGED <<token_info, supply, balance>>

\* fee_amount = (amount * transfer_fee_basis_points as u64) / 10000
FeeAmount(amount) ==
    Wrap(amount * token_info.transfer_fee_basis_points) \div BpsDenominator

TransferWithFeeErr(amount) ==
    LET product == amount * token_info.transfer_fee_basis_points
        fee_amount == FeeAmount(amount)
        transfer_amount == amount - fee_amount
        e1 == IF fee_amount > 0
              THEN TransferErr(balance, "holder", "treasury", fee_amount)
              ELSE "Ok"
        bal1 == IF fee_amount > 0
                THEN TransferBalance(balance, "holder", "treasury", fee_amount)
                ELSE balance
    IN  IF ~token_info.is_initialized THEN "AccountNotInitialized"
        ELSE IF Overflows(product) /\ overflow_checks THEN "Panic"
        ELSE IF Overflows(transfer_amount) /\ overflow_checks THEN "Panic"
        ELSE IF e1 # "Ok" THEN e1
        ELSE TransferErr(bal1, "holder", "recipient", Wrap(transfer_amount))

transfer_with_fee(amount) ==
    LET err == TransferWithFeeErr(amount)
        fee_amount == FeeAmount(amount)
        transfer_amount == Wrap(amount - fee_amount)
        bal1 == IF fee_amount > 0
                THEN TransferBalance(balance, "holder", "treasury", fee_amount)
                ELSE balance
    IN  IF err = "Ok"
        THEN /\ balance' = TransferBalance(bal1, "holder", "recipient", transfer_amount)
             /\ token_last' = TokenOutcome("transfer_with_fee", "IAMAI", amount, err,
                                           fee_amount, transfer_amount)
             /\ UNCHANGED <<token_info, supply>>
        ELSE /\ token_last' = TokenOutcome("transfer_with_fee", "IAMAI", amount, err, 0, 0)
             /\ UNCHANGED <<token_info, supply, balance>>

TokenCall ==
    \/ \E total_supply \in Supplies : initialize_token(total_supply)
    \/ \E m \in Mints, amount \in MintAmounts : mint_tokens(m, amount)
    \/ \E m \in Mints, amount \in MintAmounts : burn_tokens(m, amount)
    \/ \E amount \in TransferAmounts : transfer_with_fee(amount)

TokenNext ==
    /\ token_calls < MaxTokenCalls
    /\ token_calls' = token_calls + 1
    /\ TokenCall

----------------------------------------------------------------------------
(* iamai_governance *)

MockTotalSupply == 1000000000

Proposals == {"p1"}

Voters == {"v1", "v2"}

UserTokenAccounts == {"acct_v1", "acct_v2"}

\* owner and amount of the SPL token accounts a caller can pass
TokenOwner(a) == IF a = "acct_v1" THEN "v1" ELSE "v2"

TokenAmount(a) == IF a = "acct_v1" THEN 100 ELSE U64Max

MinTokens == {101}

QuorumPercentages == {0, 1}

ExecutionDelays == {0, 1}

VotingPeriods == {0, 1}

VotingPowers == {100, U64Max}

NoGovernance == [is_initialized |-> FALSE, min_tokens_for_proposal |-> 0,
                 quorum_percentage |-> 0, execution_delay |-> 0,
                 proposal_count |-> 0]

NoProposal == [exists |-> FALSE, proposer |-> "none",
               votes_for |-> 0, votes_against |-> 0, total_votes |-> 0,
               start_time |-> 0, end_time |-> 0, execution_time |-> 0,
               status |-> "Active", quorum_reached |-> FALSE]

NoVoteRecord == [exists |-> FALSE, support |-> FALSE, voting_power |-> 0,
                 has_voted |-> FALSE]

GovInit ==
    /\ now = 0
    /\ governance = NoGovernance
    /\ proposals = [p \in Proposals |-> NoProposal]
    /\ vote_records = [p \in Proposals |-> [v \in Voters |-> NoVoteRecord]]
    /\ gov_last = [op |-> "none", err |-> "Ok"]

\* Outcome record of a call on proposal p; pre_* is the state the call ran in.
GovOutcome(op, p, voter, account, support, voting_power, err) ==
    [op |-> op, proposal |-> p, voter |-> voter, account |-> account,
     support |-> support, voting_power |-> voting_power, err |-> err,
     pre_proposal |-> proposals[p],
     pre_record |-> IF voter \in Voters THEN vote_records[p][voter] ELSE NoVoteRecord,
     pre_count |-> governance.proposal_count]

initialize_governance(min_tokens_for_proposal, quorum_percentage, execution_delay) ==
    /\ IF governance.is_initialized
       THEN /\ gov_last' = [op |-> "initialize_governance", err |-> "AccountAlreadyInUse"]
            /\ UNCHANGED governance
       ELSE /\ governance' = [is_initialized |-> TRUE,
                              min_tokens_for_proposal |-> min_tokens_for_proposal,
                              quorum_percentage |-> quorum_percentage,
                              execution_delay |-> execution_delay,
                              proposal_count |-> 0]
            /\ gov_last' = [op |-> "initialize_governance", err |-> "Ok"]
    /\ UNCHANGED <<now, proposals, vote_records>>

CreateProposalErr(p, user_token_account) ==
    IF ~governance.is_initialized THEN "AccountNotInitialized"
    ELSE IF proposals[p].exists THEN "AccountAlreadyInUse"
    ELSE IF ~(TokenAmount(user_token_account) >= governance.min_tokens_for_proposal)
         THEN "InsufficientTokensForProposal"
         ELSE "Ok"

create_proposal(p, proposer, user_token_account, voting_period) ==
    LET err == CreateProposalErr(p, user_token_account)
    IN  /\ gov_last' = GovOutcome("create_proposal", p, proposer, user_token_account,
                                  FALSE, 0, err) @@ [voting_period |-> voting_period]
        /\ IF err = "Ok"
           THEN /\ proposals' = [proposals EXCEPT ![p] =
                        [exists |-> TRUE, proposer |-> proposer,
                         votes_for |-> 0, votes_against |-> 0, total_votes |-> 0,
                         start_time |-> now, end_time |-> now + voting_period,
                         execution_time |-> 0,
                         status |-> "Active", quorum_reached |-> FALSE]]
                /\ governance' = [governance EXCEPT !.proposal_count = @ + 1]
           ELSE UNCHANGED <<proposals, governance>>
        /\ UNCHANGED <<now, vote_records>>

\* The error vote_on_proposal returns: account validation (#[account(init)]
\* of the VoteRecord PDA) runs before the handler body.
VoteOnProposalErr(p, voter, user_token_account, support, voting_power) ==
    LET proposal == proposals[p]
        vote_record == vote_records[p][voter]
        tally == IF support THEN proposal.votes_for ELSE proposal.votes_against
    IN  IF ~proposal.exists THEN "AccountNotInitialized"
        ELSE IF vote_record.exists THEN "AccountAlreadyInUse"
        ELSE IF ~(proposal.status = "Active") THEN "ProposalNotActive"
        ELSE IF ~(now >= proposal.start_time /\ now <= proposal.end_time)
             THEN "VotingPeriodEnded"
        ELSE IF ~(voting_power <= TokenAmount(user_token_account))
             THEN "InsufficientVotingPower"
        ELSE IF vote_record.has_voted THEN "AlreadyVoted"
        ELSE IF overflow_checks /\ (Overflows(tally + voting_power)
                                    \/ Overflows(proposal.total_votes + voting_power))
             THEN "Panic"
             ELSE "Ok"

vote_on_proposal(p, voter, user_token_account, support, voting_power) ==
    LET err == VoteOnProposalErr(p, voter, user_token_account, support, voting_power)
    IN  /\ gov_last' = GovOutcome("vote_on_proposal", p, voter, user_token_account,
                                  support, voting_power, err)
        /\ IF err = "Ok"
           THEN /\ vote_records' = [vote_records EXCEPT ![p][voter] =
                        [exists |-> TRUE, support |-> support,
                         voting_power |-> voting_power, has_voted |-> TRUE]]
                /\ proposals' = [proposals EXCEPT
                        ![p].votes_for = IF support THEN Wrap(@ + voting_power) ELSE @,
                        ![p].votes_against = IF support THEN @ ELSE Wrap(@ + voting_power),
                        ![p].total_votes = Wrap(@ + voting_power)]
           ELSE UNCHANGED <<proposals, vote_records>>
        /\ UNCHANGED <<now, governance>>

\* (total_supply * quorum_percentage as u64) / 100; the product stays far
\* below 2^64 for every u8 percentage, so it is computed unwrapped.
RequiredQuorum == (MockTotalSupply * governance.quorum_percentage) \div 100

\* finalize_proposal without its status check
FinalizeProposalErr_NoStatusCheck(p) ==
    IF ~governance.is_initialized \/ ~proposals[p].exists THEN "AccountNotInitialized"
    ELSE IF ~(now > proposals[p].end_time) THEN "VotingPeriodNotEnded"
    ELSE "Ok"

FinalizeProposalErr(p) ==
    IF ~governance.is_initialized \/ ~proposals[p].exists THEN "AccountNotInitialized"
    ELSE IF ~(proposals[p].status = "Active") THEN "ProposalNotActive"
    ELSE IF ~(now > proposals[p].end_time) THEN "VotingPeriodNotEnded"
    ELSE "Ok"

\* finalize_proposal passing a proposal whatever the quorum
FinalizeOutcome_IgnoresQuorum(proposal) ==
    LET quorum_reached == proposal.total_votes >= RequiredQuorum
    IN  IF proposal.votes_for > proposal.votes_against
        THEN [proposal EXCEPT !.quorum_reached = quorum_reached,
                              !.status = "Passed",
                              !.execution_time = now + governance.execution_delay]
        ELSE [proposal EXCEPT !.quorum_reached = quorum_reached,
                              !.status = "Rejected"]

\* finalize_proposal letting a tie pass
FinalizeOutcome_TiePasses(proposal) ==
    LET quorum_reached == proposal.total_votes >= RequiredQuorum
    IN  IF quorum_reached /\ proposal.votes_for >= proposal.votes_against
        THEN [proposal EXCEPT !.quorum_reached = quorum_reached,
                              !.status = "Passed",
                              !.execution_time = now + governance.execution_delay]
        ELSE [proposal EXCEPT !.quorum_reached = quorum_reached,
                              !.status = "Rejected"]

FinalizeOutcome(proposal) ==
    LET quorum_reached == proposal.total_votes >= RequiredQuorum
    IN  IF quorum_reached /\ proposal.votes_for > proposal.votes_against
        THEN [proposal EXCEPT !.quorum_reached = quorum_reached,
                              !.status = "Passed",
                              !.execution_time = now + governance.execution_delay]
        ELSE [proposal EXCEPT !.quorum_reached = quorum_reached,
                              !.status = "Rejected"]

finalize_proposal(p) ==
    LET err == FinalizeProposalErr(p)
    IN  /\ gov_last' = GovOutcome("finalize_proposal", p, "none", "none", FALSE, 0, err)
        /\ IF err = "Ok"
           THEN proposals' = [proposals EXCEPT ![p] = FinalizeOutcome(@)]
           ELSE UNCHANGED proposals
        /\ UNCHANGED <<now, governance, vote_records>>

\* execute_proposal without its execution-delay check
ExecuteProposalErr_NoDelay(p) ==
    IF ~proposals[p].exists THEN "AccountNotInitialized"
    ELSE IF ~(proposals[p].status = "Passed") THEN "ProposalNotPassed"
    ELSE "Ok"

\* execute_proposal accepting a proposal that did not pass
ExecuteProposalErr_AnyStatus(p) ==
    IF ~proposals[p].exists THEN "AccountNotInitialized"
    ELSE IF ~(proposals[p].status # "Executed") THEN "ProposalNotPassed"
    ELSE IF ~(now >= proposals[p].execution_time) THEN "ExecutionDelayNotMet"
    ELSE "Ok"

ExecuteProposalErr(p) ==
    IF ~proposals[p].exists THEN "AccountNotInitialized"
    ELSE IF ~(proposals[p].status = "Passed") THEN "ProposalNotPassed"
    ELSE IF ~(now >= proposals[p].execution_time) THEN "ExecutionDelayNotMet"
    ELSE "Ok"

execute_proposal(p) ==
    LET err == ExecuteProposalErr(p)
    IN  /\ gov_last' = GovOutcome("execute_proposal", p, "none", "none", FALSE, 0, err)
        /\ IF err = "Ok"
           THEN proposals' = [proposals EXCEPT ![p].status = "Executed"]
           ELSE UNCHANGED proposals
        /\ UNCHANGED <<now, governance, vote_records>>

\* the cluster clock advances between transactions
Tick ==
    /\ now < MaxTime
    /\ now' = now + 1
    /\ gov_last' = [op |-> "tick", err |-> "Ok"]
    /\ UNCHANGED <<governance, proposals, vote_records>>

GovNext ==
    \/ \E m \in MinTokens, q \in QuorumPercentages, d \in ExecutionDelays :
           initialize_governance(m, q, d)
    \/ \E p \in Proposals, v \in Voters, a \in UserTokenAccounts, vp \in VotingPeriods :
           create_proposal(p, v, a, vp)
    \/ \E p \in Proposals, v \in Voters, a \in UserTokenAccounts,
          support \in BOOLEAN, power \in VotingPowers :
           vote_on_proposal(p, v, a, support, power)
    \/ \E p \in Proposals : finalize_proposal(p)
    \/ \E p \in Proposals : execute_proposal(p)
    \/ Tick

----------------------------------------------------------------------------
(* iamai_marketplace *)

RoyaltyDenominator == 10000

Listings == {"m1"}

MarketUsers == {"alice", "bob"}

WalletAccounts == {"w_alice", "w_bob", "w_treasury"}

\* the wallet owner, the only authority token::transfer accepts for it
WalletOwner(a) ==
    IF a = "w_alice" THEN "alice" ELSE IF a = "w_bob" THEN "bob" ELSE "dao"

\* the accounts purchase_model is handed: none of buyer_token_account,
\* creator_token_account and treasury carries a constraint
BuyerAccounts == {"w_alice", "w_bob"}

CreatorAccounts == {"w_alice", "w_bob"}

TreasuryAccounts == {"w_treasury", "w_bob"}

\* royalty_percentage is a u16 stored unvalidated; price is a u64
Royalties == {250, 20000}

Prices == {0, 1000, 100000}

\* rating is a u8
Ratings == {0, 1, 5, 6}

NoMarketplace ==
    [exists |-> FALSE, treasury |-> "none", royalty_percentage |-> 0,
     total_models |-> 0, total_sales |-> 0, total_volume |-> 0]

NoListing ==
    [exists |-> FALSE, creator |-> "none", price |-> 0, is_active |-> FALSE,
     sales_count |-> 0, total_revenue |-> 0, rating_sum |-> 0,
     rating_count |-> 0, created_at |-> 0]

NoPurchaseRecord ==
    [exists |-> FALSE, price_paid |-> 0, purchased_at |-> 0, has_access |-> FALSE]

NoModelReview == [exists |-> FALSE, rating |-> 0, created_at |-> 0]

MarketInit ==
    /\ marketplace = NoMarketplace
    /\ listings = [m \in Listings |-> NoListing]
    /\ purchase_records = [m \in Listings |-> [u \in MarketUsers |-> NoPurchaseRecord]]
    /\ model_reviews = [m \in Listings |-> [u \in MarketUsers |-> NoModelReview]]
    /\ wallet = [a \in WalletAccounts |->
                    IF a = "w_alice" THEN 500
                    ELSE IF a = "w_bob" THEN 200000 ELSE 0]
    /\ market_last = NoCall

\* Outcome record of a call; the pre-state is the state the call ran in.
MarketOutcome(op, m, user, err) ==
    [op |-> op, listing |-> m, user |-> user, err |-> err,
     pre_marketplace |-> marketplace, pre_listing |-> listings[m],
     pre_record |-> purchase_records[m][user],
     pre_review |-> model_reviews[m][user],
     pre_wallet |-> wallet]

initialize_marketplace(royalty_percentage) ==
    IF marketplace.exists
    THEN \* #[account(init)]: the account already exists
         /\ market_last' = MarketOutcome("initialize_marketplace", "m1", "alice",
                                         "AccountAlreadyInUse")
         /\ UNCHANGED <<marketplace, listings, purchase_records, model_reviews, wallet>>
    ELSE /\ marketplace' = [exists |-> TRUE, treasury |-> "w_treasury",
                            royalty_percentage |-> royalty_percentage,
                            total_models |-> 0, total_sales |-> 0,
                            total_volume |-> 0]
         /\ market_last' = MarketOutcome("initialize_marketplace", "m1", "alice", "Ok")
         /\ UNCHANGED <<listings, purchase_records, model_reviews, wallet>>

ListModelErr(m) ==
    IF ~marketplace.exists THEN "AccountNotInitialized"
    ELSE IF listings[m].exists THEN "AccountAlreadyInUse"
    ELSE IF Overflows(marketplace.total_models + 1) /\ overflow_checks THEN "Panic"
    ELSE "Ok"

list_model(m, creator, price) ==
    LET err == ListModelErr(m)
    IN  /\ market_last' = MarketOutcome("list_model", m, creator, err)
        /\ IF err = "Ok"
           THEN /\ listings' = [listings EXCEPT ![m] =
                       [exists |-> TRUE, creator |-> creator, price |-> price,
                        is_active |-> TRUE, sales_count |-> 0,
                        total_revenue |-> 0, rating_sum |-> 0,
                        rating_count |-> 0, created_at |-> now]]
                /\ marketplace' = [marketplace EXCEPT
                                      !.total_models = Wrap(@ + 1)]
                /\ UNCHANGED <<purchase_records, model_reviews, wallet>>
           ELSE UNCHANGED <<marketplace, listings, purchase_records, model_reviews,
                            wallet>>

\* royalty_amount = (price * marketplace.royalty_percentage as u64) / 10000
RoyaltyAmount(m) ==
    Wrap(listings[m].price * marketplace.royalty_percentage) \div RoyaltyDenominator

\* creator_amount = price - royalty_amount
CreatorAmount(m) == Wrap(listings[m].price - RoyaltyAmount(m))

\* token::transfer signed by the buyer: the buyer must own the source account
BuyerTransferErr(bal, buyer, from, to, amount) ==
    IF WalletOwner(from) # buyer THEN "OwnerMismatch"
    ELSE TransferErr(bal, from, to, amount)

\* the wallets after the royalty transfer (made only when royalty_amount > 0)
WalletAfterRoyalty(m, from, treasury_account) ==
    IF RoyaltyAmount(m) > 0
    THEN TransferBalance(wallet, from, treasury_account, RoyaltyAmount(m))
    ELSE wallet

\* purchase_model accepting a buyer whose PurchaseRecord already exists
PurchaseModelErr_NoInit(m, buyer, from, creator_account, treasury_account) ==
    LET price == listings[m].price
        product == price * marketplace.royalty_percentage
        e1 == IF RoyaltyAmount(m) > 0
              THEN BuyerTransferErr(wallet, buyer, from, treasury_account,
                                    RoyaltyAmount(m))
              ELSE "Ok"
        e2 == BuyerTransferErr(WalletAfterRoyalty(m, from, treasury_account),
                               buyer, from, creator_account, CreatorAmount(m))
    IN  IF ~marketplace.exists \/ ~listings[m].exists THEN "AccountNotInitialized"
        ELSE IF ~listings[m].is_active THEN "ModelNotActive"
        ELSE IF Overflows(product) /\ overflow_checks THEN "Panic"
        ELSE IF Overflows(price - RoyaltyAmount(m)) /\ overflow_checks THEN "Panic"
        ELSE IF e1 # "Ok" THEN e1
        ELSE IF e2 # "Ok" THEN e2
        ELSE IF overflow_checks
                /\ (\/ Overflows(listings[m].sales_count + 1)
                    \/ Overflows(listings[m].total_revenue + price)
                    \/ Overflows(marketplace.total_sales + 1)
                    \/ Overflows(marketplace.total_volume + price))
             THEN "Panic"
        ELSE "Ok"

\* The error purchase_model returns, in the order the runtime reaches them:
\* account validation (with the init of the PurchaseRecord PDA), then the
\* handler.
PurchaseModelErr(m, buyer, from, creator_account, treasury_account) ==
    LET price == listings[m].price
        product == price * marketplace.royalty_percentage
        e1 == IF RoyaltyAmount(m) > 0
              THEN BuyerTransferErr(wallet, buyer, from, treasury_account,
                                    RoyaltyAmount(m))
              ELSE "Ok"
        e2 == BuyerTransferErr(WalletAfterRoyalty(m, from, treasury_account),
                               buyer, from, creator_account, CreatorAmount(m))
    IN  IF ~marketplace.exists \/ ~listings[m].exists THEN "AccountNotInitialized"
        ELSE IF purchase_records[m][buyer].exists THEN "AccountAlreadyInUse"
        ELSE IF ~listings[m].is_active THEN "ModelNotActive"
        ELSE IF Overflows(product) /\ overflow_checks THEN "Panic"
        ELSE IF Overflows(price - RoyaltyAmount(m)) /\ overflow_checks THEN "Panic"
        ELSE IF e1 # "Ok" THEN e1
        ELSE IF e2 # "Ok" THEN e2
        ELSE IF overflow_checks
                /\ (\/ Overflows(listings[m].sales_count + 1)
                    \/ Overflows(listings[m].total_revenue + price)
                    \/ Overflows(marketplace.total_sales + 1)
                    \/ Overflows(marketplace.total_volume + price))
             THEN "Panic"
        ELSE "Ok"

\* the wallets of a purchase whose royalty transfer stays when the call fails
\* later
WalletAfterPurchase_NoRollback(err, m, from, creator_account, treasury_account) ==
    IF err = "Ok"
    THEN TransferBalance(WalletAfterRoyalty(m, from, treasury_account),
                         from, creator_account, CreatorAmount(m))
    ELSE IF err = "InsufficientFunds"
         THEN WalletAfterRoyalty(m, from, treasury_account)
         ELSE wallet

\* The wallets after purchase_model: both transfers when the instruction
\* succeeds; an error returned by `?` aborts the transaction and the royalty
\* transfer already made is rolled back with it.
WalletAfterPurchase(err, m, from, creator_account, treasury_account) ==
    IF err = "Ok"
    THEN TransferBalance(WalletAfterRoyalty(m, from, treasury_account),
                         from, creator_account, CreatorAmount(m))
    ELSE wallet

purchase_model(m, buyer, from, creator_account, treasury_account) ==
    LET err == PurchaseModelErr(m, buyer, from, creator_account, treasury_account)
        price == listings[m].price
    IN  /\ market_last' =
               MarketOutcome("purchase_model", m, buyer, err)
               @@ [from |-> from, creator_account |-> creator_account,
                   treasury_account |-> treasury_account,
                   royalty_amount |-> RoyaltyAmount(m),
                   creator_amount |-> CreatorAmount(m)]
        /\ wallet' = WalletAfterPurchase(err, m, from, creator_account,
                                         treasury_account)
        /\ IF err = "Ok"
           THEN /\ purchase_records' = [purchase_records EXCEPT ![m][buyer] =
                       [exists |-> TRUE, price_paid |-> price,
                        purchased_at |-> now, has_access |-> TRUE]]
                /\ listings' = [listings EXCEPT
                                   ![m].sales_count = Wrap(@ + 1),
                                   ![m].total_revenue = Wrap(@ + price)]
                /\ marketplace' = [marketplace EXCEPT
                                      !.total_sales = Wrap(@ + 1),
                                      !.total_volume = Wrap(@ + price)]
                /\ UNCHANGED model_reviews
           ELSE UNCHANGED <<marketplace, listings, purchase_records, model_reviews>>

\* rate_model accepting a reviewer whose ModelReview already exists
RateModelErr_NoReviewInit(m, reviewer, rating) ==
    IF ~listings[m].exists THEN "AccountNotInitialized"
    ELSE IF ~purchase_records[m][reviewer].exists THEN "AccountNotInitialized"
    ELSE IF ~(rating >= 1 /\ rating <= 5) THEN "InvalidRating"
    ELSE IF ~purchase_records[m][reviewer].has_access THEN "NoAccessToModel"
    ELSE IF overflow_checks
            /\ (\/ Overflows(listings[m].rating_sum + rating)
                \/ Overflows(listings[m].rating_count + 1))
         THEN "Panic"
    ELSE "Ok"

\* The error rate_model returns: account validation (the PurchaseRecord PDA
\* must exist, the ModelReview PDA is init), then the handler.
RateModelErr(m, reviewer, rating) ==
    IF ~listings[m].exists THEN "AccountNotInitialized"
    ELSE IF ~purchase_records[m][reviewer].exists THEN "AccountNotInitialized"
    ELSE IF model_reviews[m][reviewer].exists THEN "AccountAlreadyInUse"
    ELSE IF ~(rating >= 1 /\ rating <= 5) THEN "InvalidRating"
    ELSE IF ~purchase_records[m][reviewer].has_access THEN "NoAccessToModel"
    ELSE IF overflow_checks
            /\ (\/ Overflows(listings[m].rating_sum + rating)
                \/ Overflows(listings[m].rating_count + 1))
         THEN "Panic"
    ELSE "Ok"

rate_model(m, reviewer, rating) ==
    LET err == RateModelErr(m, reviewer, rating)
    IN  /\ market_last' = MarketOutcome("rate_model", m, reviewer, err)
                          @@ [rating |-> rating]
        /\ IF err = "Ok"
           THEN /\ model_reviews' = [model_reviews EXCEPT ![m][reviewer] =
                       [exists |-> TRUE, rating |-> rating, created_at |-> now]]
                /\ listings' = [listings EXCEPT
                                   ![m].rating_sum = Wrap(@ + rating),
                                   ![m].rating_count = Wrap(@ + 1)]
                /\ UNCHANGED <<marketplace, purchase_records, wallet>>
           ELSE UNCHANGED <<marketplace, listings, purchase_records, model_reviews,
                            wallet>>

\* update_model_status accepting any signer
UpdateModelStatusErr_AnyCaller(m, creator) ==
    IF ~listings[m].exists THEN "AccountNotInitialized"
    ELSE "Ok"

UpdateModelStatusErr(m, creator) ==
    IF ~listings[m].exists THEN "AccountNotInitialized"
    ELSE IF ~(creator = listings[m].creator) THEN "Unauthorized"
    ELSE "Ok"

update_model_status(m, creator, is_active) ==
    LET err == UpdateModelStatusErr(m, creator)
    IN  /\ market_last' = MarketOutcome("update_model_status", m, creator, err)
                          @@ [is_active |-> is_active]
        /\ IF err = "Ok"
           THEN listings' = [listings EXCEPT ![m].is_active = is_active]
           ELSE UNCHANGED listings
        /\ UNCHANGED <<marketplace, purchase_records, model_reviews, wallet>>

MarketNext ==
    \/ \E royalty_percentage \in Royalties : initialize_marketplace(royalty_percentage)
    \/ \E m \in Listings, creator \in MarketUsers, price \in Prices :
           list_model(m, creator, price)
    \/ \E m \in Listings, buyer \in MarketUsers,
          from \in BuyerAccounts, creator_account \in CreatorAccounts,
          treasury_account \in TreasuryAccounts :
           purchase_model(m, buyer, from, creator_account, treasury_account)
    \/ \E m \in Listings, reviewer \in MarketUsers, rating \in Ratings :
           rate_model(m, reviewer, rating)
    \/ \E m \in Listings, creator \in MarketUsers, is_active \in BOOLEAN :
           update_model_status(m, creator, is_active)

----------------------------------------------------------------------------
(* iamai_staking *)

\* The clock of StakeSpec counts periods of annual_seconds = 365 * 24 * 60 *
\* 60 seconds, and a tier's duration_days is a multiple of DaysPerTick, so
\* every timestamp is a multiple of annual_seconds and that factor cancels
\* exactly in calculate_rewards.
DaysPerTick == 365

PenaltyDenominator == 10000

RewardDenominator == 10000

Tiers == {"t1", "t2"}

Stakers == {"alice", "bob"}

\* the vault PDA, the stakers' token accounts, and a token account of bob's
\* in another mint ("foreign", see AccountMint)
StakeAccounts == {"vault", "s_alice", "s_bob", "foreign"}

StakeAccountOwner(a) ==
    IF a = "s_alice" THEN "alice"
    ELSE IF a = "vault" THEN "vault" ELSE "bob"

\* the token account unstake_tokens and claim_rewards pay a staker into
PayoutAccount(user) == IF user = "alice" THEN "s_alice" ELSE "s_bob"

\* early_unstake_penalty and apy_basis_points are u16 stored unvalidated
Penalties == {1000, 20000}

\* (staking_tier, duration_days, apy_basis_points) of the tiers created
TierCreations == {<<"t1", 365, 1000>>, <<"t2", 730, 10000>>}

\* (vault, user_token_account) handed to stake_tokens, neither of which
\* carries a constraint: the vault PDA with the staker's own account, or a
\* staker's account on both sides
StakeRoutes == {<<"vault", "s_alice">>, <<"vault", "s_bob">>, <<"foreign", "foreign">>}

StakeAmounts == {1000, HalfRange + 1000}

NoStakingPool ==
    [is_initialized |-> FALSE, early_unstake_penalty |-> 0, total_staked |-> 0,
     total_rewards_distributed |-> 0]

NoStakingTier ==
    [exists |-> FALSE, pool |-> "none", duration_days |-> 0,
     apy_basis_points |-> 0, total_staked |-> 0, is_active |-> FALSE]

NoUserStake ==
    [exists |-> FALSE, tier |-> "none", amount |-> 0, start_time |-> 0,
     end_time |-> 0, rewards_claimed |-> 0, is_active |-> FALSE]

StakeInit ==
    /\ staking_pool = NoStakingPool
    /\ staking_tiers = [t \in Tiers |-> NoStakingTier]
    /\ user_stakes = [u \in Stakers |-> NoUserStake]
    /\ stake_wallet = [a \in StakeAccounts |->
                          IF a = "vault" THEN 0
                          ELSE IF a = "s_bob" THEN 1000 ELSE HalfRange + 1000]
    /\ stake_last = NoCall
    /\ stake_calls = 0

\* Outcome record of a call; the pre-state is the state the call ran in.
StakeOutcome(op, user, t, err) ==
    [op |-> op, user |-> user, tier |-> t, err |-> err,
     pre_pool |-> staking_pool, pre_tiers |-> staking_tiers,
     pre_stake |-> user_stakes[user], pre_wallet |-> stake_wallet]

\* a * b of two u64 values, wrapped to the u64 range
RECURSIVE MulWrap(_, _)
MulWrap(a, b) ==
    IF b = 0 THEN 0
    ELSE Wrap(2 * MulWrap(a, b \div 2) + (IF b % 2 = 1 THEN a ELSE 0))

MulOverflows(a, b) == b # 0 /\ a > U64Max \div b

\* floor(a * b / d) over the integers, for b and d small enough that
\* (d - 1) * b is representable
MulDiv(a, b, d) == (a \div d) * b + ((a % d) * b) \div d

initialize_staking(early_unstake_penalty) ==
    IF staking_pool.is_initialized
    THEN \* #[account(init)]: the account already exists
         /\ stake_last' = StakeOutcome("initialize_staking", "alice", "t1",
                                       "AccountAlreadyInUse")
         /\ UNCHANGED <<staking_pool, staking_tiers, user_stakes, stake_wallet, now>>
    ELSE /\ staking_pool' = [is_initialized |-> TRUE,
                             early_unstake_penalty |-> early_unstake_penalty,
                             total_staked |-> 0,
                             total_rewards_distributed |-> 0]
         /\ stake_last' = StakeOutcome("initialize_staking", "alice", "t1", "Ok")
         /\ UNCHANGED <<staking_tiers, user_stakes, stake_wallet, now>>

CreateStakingTierErr(t) ==
    IF ~staking_pool.is_initialized THEN "AccountNotInitialized"
    ELSE IF staking_tiers[t].exists THEN "AccountAlreadyInUse"
    ELSE "Ok"

create_staking_tier(t, duration_days, apy_basis_points) ==
    LET err == CreateStakingTierErr(t)
    IN  /\ stake_last' = StakeOutcome("create_staking_tier", "alice", t, err)
        /\ IF err = "Ok"
           THEN staking_tiers' = [staking_tiers EXCEPT ![t] =
                    [exists |-> TRUE, pool |-> "pool",
                     duration_days |-> duration_days,
                     apy_basis_points |-> apy_basis_points,
                     total_staked |-> 0, is_active |-> TRUE]]
           ELSE UNCHANGED staking_tiers
        /\ UNCHANGED <<staking_pool, user_stakes, stake_wallet, now>>

\* token::transfer signed by the user: the user must own the source account
UserTransferErr(bal, user, from, to, amount) ==
    IF StakeAccountOwner(from) # user THEN "OwnerMismatch"
    ELSE TransferErr(bal, from, to, amount)

\* The error stake_tokens returns: account validation (the UserStake PDA is
\* init), then the handler.
StakeTokensErr(user, t, amount, vault_account, user_token_account) ==
    IF ~staking_pool.is_initialized \/ ~staking_tiers[t].exists
    THEN "AccountNotInitialized"
    ELSE IF user_stakes[user].exists THEN "AccountAlreadyInUse"
    ELSE IF overflow_checks
            /\ (\/ Overflows(staking_pool.total_staked + amount)
                \/ Overflows(staking_tiers[t].total_staked + amount))
         THEN "Panic"
    ELSE UserTransferErr(stake_wallet, user, user_token_account, vault_account,
                         amount)

stake_tokens(user, t, amount, vault_account, user_token_account) ==
    LET err == StakeTokensErr(user, t, amount, vault_account, user_token_account)
    IN  /\ stake_last' = StakeOutcome("stake_tokens", user, t, err)
                         @@ [amount |-> amount, vault_account |-> vault_account,
                             user_token_account |-> user_token_account]
        /\ IF err = "Ok"
           THEN /\ user_stakes' = [user_stakes EXCEPT ![user] =
                       [exists |-> TRUE, tier |-> t, amount |-> amount,
                        start_time |-> now,
                        end_time |-> now + staking_tiers[t].duration_days
                                               \div DaysPerTick,
                        rewards_claimed |-> 0, is_active |-> TRUE]]
                /\ staking_pool' = [staking_pool EXCEPT
                                       !.total_staked = Wrap(@ + amount)]
                /\ staking_tiers' = [staking_tiers EXCEPT
                                        ![t].total_staked = Wrap(@ + amount)]
                /\ stake_wallet' = TransferBalance(stake_wallet, user_token_account,
                                                   vault_account, amount)
           ELSE UNCHANGED <<staking_pool, staking_tiers, user_stakes, stake_wallet>>
        /\ UNCHANGED now

\* min(current_time, end_time) - start_time
StakingDuration(user_stake, current_time) ==
    (IF current_time < user_stake.end_time THEN current_time
     ELSE user_stake.end_time) - user_stake.start_time

\* (amount as u128 * apy_basis_points as u128 * staking_duration as u128)
\*     / (10000u128 * annual_seconds as u128), then `as u64`
GrossRewards(user_stake, staking_tier, current_time) ==
    MulDiv(user_stake.amount,
           staking_tier.apy_basis_points * StakingDuration(user_stake, current_time),
           RewardDenominator) % U64Modulus

\* rewards as u64 - user_stake.rewards_claimed
CalculateRewardsErr(user_stake, staking_tier, current_time) ==
    IF overflow_checks
       /\ GrossRewards(user_stake, staking_tier, current_time)
              < user_stake.rewards_claimed
    THEN "Panic"
    ELSE "Ok"

calculate_rewards(user_stake, staking_tier, current_time) ==
    Wrap(GrossRewards(user_stake, staking_tier, current_time)
             - user_stake.rewards_claimed)

\* penalty = (amount * early_unstake_penalty as u64) / 10000 of an early
\* unstake, 0 otherwise
Penalty(user_stake) ==
    IF now < user_stake.end_time
    THEN MulWrap(user_stake.amount, staking_pool.early_unstake_penalty)
             \div PenaltyDenominator
    ELSE 0

\* amount_to_return after the penalty and the rewards
AmountToReturn(user_stake, staking_tier) ==
    Wrap(Wrap(user_stake.amount - Penalty(user_stake))
             + calculate_rewards(user_stake, staking_tier, now))

\* unstake_tokens taking any UserStake, active or not
UnstakeTokensErr_AnyStake(user, t, early_unstake) ==
    LET user_stake == user_stakes[user]
        staking_tier == staking_tiers[t]
        rewards == calculate_rewards(user_stake, staking_tier, now)
    IN  IF ~staking_pool.is_initialized \/ ~staking_tier.exists
           \/ ~user_stake.exists
        THEN "AccountNotInitialized"
        ELSE IF now < user_stake.end_time /\ ~early_unstake
             THEN "StakingPeriodNotComplete"
        ELSE IF overflow_checks /\ now < user_stake.end_time
                /\ (\/ MulOverflows(user_stake.amount,
                                    staking_pool.early_unstake_penalty)
                    \/ Overflows(user_stake.amount - Penalty(user_stake)))
             THEN "Panic"
        ELSE IF CalculateRewardsErr(user_stake, staking_tier, now) # "Ok"
             THEN "Panic"
        ELSE IF overflow_checks
                /\ (\/ Overflows(Wrap(user_stake.amount - Penalty(user_stake))
                                     + rewards)
                    \/ Overflows(staking_pool.total_staked - user_stake.amount)
                    \/ Overflows(staking_tier.total_staked - user_stake.amount)
                    \/ Overflows(staking_pool.total_rewards_distributed + rewards)
                    \/ Overflows(user_stake.rewards_claimed + rewards))
             THEN "Panic"
        ELSE TransferErr(stake_wallet, "vault", PayoutAccount(user),
                         AmountToReturn(user_stake, staking_tier))

\* The error unstake_tokens returns, in the order the handler reaches them.
UnstakeTokensErr(user, t, early_unstake) ==
    LET user_stake == user_stakes[user]
        staking_tier == staking_tiers[t]
        rewards == calculate_rewards(user_stake, staking_tier, now)
    IN  IF ~staking_pool.is_initialized \/ ~staking_tier.exists
           \/ ~user_stake.exists
        THEN "AccountNotInitialized"
        ELSE IF ~user_stake.is_active THEN "StakeNotActive"
        ELSE IF now < user_stake.end_time /\ ~early_unstake
             THEN "StakingPeriodNotComplete"
        ELSE IF overflow_checks /\ now < user_stake.end_time
                /\ (\/ MulOverflows(user_stake.amount,
                                    staking_pool.early_unstake_penalty)
                    \/ Overflows(user_stake.amount - Penalty(user_stake)))
             THEN "Panic"
        ELSE IF CalculateRewardsErr(user_stake, staking_tier, now) # "Ok"
             THEN "Panic"
        ELSE IF overflow_checks
                /\ (\/ Overflows(Wrap(user_stake.amount - Penalty(user_stake))
                                     + rewards)
                    \/ Overflows(staking_pool.total_staked - user_stake.amount)
                    \/ Overflows(staking_tier.total_staked - user_stake.amount)
                    \/ Overflows(staking_pool.total_rewards_distributed + rewards)
                    \/ Overflows(user_stake.rewards_claimed + rewards))
             THEN "Panic"
        ELSE TransferErr(stake_wallet, "vault", PayoutAccount(user),
                         AmountToReturn(user_stake, staking_tier))

\* the records of an unstake whose writes stay when the transfer fails
RecordsAfterUnstake_NoRollback(err, user, t) ==
    LET user_stake == user_stakes[user]
        rewards == calculate_rewards(user_stake, staking_tiers[t], now)
    IN  IF err \in {"Ok", "InsufficientFunds"}
        THEN [pool |-> [staking_pool EXCEPT
                           !.total_staked = Wrap(@ - user_stake.amount),
                           !.total_rewards_distributed = Wrap(@ + rewards)],
              tiers |-> [staking_tiers EXCEPT
                            ![t].total_staked = Wrap(@ - user_stake.amount)],
              stake |-> [user_stake EXCEPT
                            !.is_active = FALSE,
                            !.rewards_claimed = Wrap(@ + rewards)]]
        ELSE [pool |-> staking_pool, tiers |-> staking_tiers, stake |-> user_stake]

\* The records after unstake_tokens: the handler writes them before the
\* transfer (lines 106-113), and an error returned by `?` at line 130 aborts
\* the transaction, which discards them.
RecordsAfterUnstake(err, user, t) ==
    LET user_stake == user_stakes[user]
        rewards == calculate_rewards(user_stake, staking_tiers[t], now)
    IN  IF err = "Ok"
        THEN [pool |-> [staking_pool EXCEPT
                           !.total_staked = Wrap(@ - user_stake.amount),
                           !.total_rewards_distributed = Wrap(@ + rewards)],
              tiers |-> [staking_tiers EXCEPT
                            ![t].total_staked = Wrap(@ - user_stake.amount)],
              stake |-> [user_stake EXCEPT
                            !.is_active = FALSE,
                            !.rewards_claimed = Wrap(@ + rewards)]]
        ELSE [pool |-> staking_pool, tiers |-> staking_tiers, stake |-> user_stake]

unstake_tokens(user, t, early_unstake) ==
    LET err == UnstakeTokensErr(user, t, early_unstake)
        user_stake == user_stakes[user]
        staking_tier == staking_tiers[t]
        records == RecordsAfterUnstake(err, user, t)
    IN  /\ stake_last' = StakeOutcome("unstake_tokens", user, t, err)
                         @@ [early_unstake |-> early_unstake,
                             penalty |-> Penalty(user_stake),
                             rewards |-> calculate_rewards(user_stake, staking_tier, now),
                             paid |-> IF err = "Ok"
                                      THEN AmountToReturn(user_stake, staking_tier)
                                      ELSE 0]
        /\ staking_pool' = records.pool
        /\ staking_tiers' = records.tiers
        /\ user_stakes' = [user_stakes EXCEPT ![user] = records.stake]
        /\ stake_wallet' = IF err = "Ok"
                           THEN TransferBalance(stake_wallet, "vault",
                                    PayoutAccount(user),
                                    AmountToReturn(user_stake, staking_tier))
                           ELSE stake_wallet
        /\ UNCHANGED now

\* The error claim_rewards returns, in the order the handler reaches them.
ClaimRewardsErr(user, t) ==
    LET user_stake == user_stakes[user]
        staking_tier == staking_tiers[t]
        rewards == calculate_rewards(user_stake, staking_tier, now)
    IN  IF ~staking_pool.is_initialized \/ ~staking_tier.exists
           \/ ~user_stake.exists
        THEN "AccountNotInitialized"
        ELSE IF ~user_stake.is_active THEN "StakeNotActive"
        ELSE IF CalculateRewardsErr(user_stake, staking_tier, now) # "Ok"
             THEN "Panic"
        ELSE IF ~(rewards > 0) THEN "NoRewardsAvailable"
        ELSE IF overflow_checks
                /\ (\/ Overflows(staking_pool.total_rewards_distributed + rewards)
                    \/ Overflows(user_stake.rewards_claimed + rewards))
             THEN "Panic"
        ELSE TransferErr(stake_wallet, "vault", PayoutAccount(user), rewards)

claim_rewards(user, t) ==
    LET err == ClaimRewardsErr(user, t)
        user_stake == user_stakes[user]
        rewards == calculate_rewards(user_stake, staking_tiers[t], now)
    IN  /\ stake_last' = StakeOutcome("claim_rewards", user, t, err)
                         @@ [rewards |-> rewards,
                             paid |-> IF err = "Ok" THEN rewards ELSE 0]
        /\ IF err = "Ok"
           THEN /\ staking_pool' = [staking_pool EXCEPT
                        !.total_rewards_distributed = Wrap(@ + rewards)]
                /\ user_stakes' = [user_stakes EXCEPT
                        ![user].rewards_claimed = Wrap(@ + rewards)]
                /\ stake_wallet' = TransferBalance(stake_wallet, "vault",
                                                   PayoutAccount(user), rewards)
           ELSE UNCHANGED <<staking_pool, user_stakes, stake_wallet>>
        /\ UNCHANGED <<staking_tiers, now>>

\* Clock::get()?.unix_timestamp moves on by annual_seconds
StakeTick ==
    /\ now < MaxTime
    /\ now' = now + 1
    /\ stake_last' = [op |-> "tick", err |-> "Ok"]
    /\ UNCHANGED <<staking_pool, staking_tiers, user_stakes, stake_wallet,
                   stake_calls>>

StakeCall ==
    \/ \E early_unstake_penalty \in Penalties :
           initialize_staking(early_unstake_penalty)
    \/ \E creation \in TierCreations :
           create_staking_tier(creation[1], creation[2], creation[3])
    \/ \E user \in Stakers, t \in Tiers, amount \in StakeAmounts,
          route \in StakeRoutes :
           stake_tokens(user, t, amount, route[1], route[2])
    \/ \E user \in Stakers, t \in Tiers, early_unstake \in BOOLEAN :
           unstake_tokens(user, t, early_unstake)
    \/ \E user \in Stakers, t \in Tiers : claim_rewards(user, t)

StakeNext ==
    \/ /\ stake_calls < MaxStakeCalls
       /\ stake_calls' = stake_calls + 1
       /\ StakeCall
    \/ StakeTick

----------------------------------------------------------------------------
(* Specifications *)

Init ==
    /\ overflow_checks \in BOOLEAN
    /\ TokenInit
    /\ GovInit
    /\ MarketInit
    /\ StakeInit

TokenSpec ==
    Init /\ [][TokenNext /\ UNCHANGED <<overflow_checks, gov_vars, market_vars, stake_vars>>]_vars

GovSpec ==
    Init /\ [][GovNext /\ UNCHANGED <<overflow_checks, token_vars, market_vars, stake_vars>>]_vars

MarketSpec ==
    Init /\ [][MarketNext
               /\ UNCHANGED <<overflow_checks, token_vars, gov_vars, stake_vars>>]_vars

\* iamai_staking shares only the clock with the governance variables
StakeSpec ==
    Init /\ [][StakeNext
               /\ UNCHANGED <<overflow_checks, token_vars, market_vars, governance,
                              proposals, vote_records, gov_last>>]_vars

\* The governance program deployed next to a token whose TokenInfo has been
\* initialised: the state iamai_token is in after initialize_token(LiveSupply).
LiveSupply == 2

GovLiveInit ==
    /\ overflow_checks \in BOOLEAN
    /\ token_info = [is_initialized |-> TRUE, total_supply |-> LiveSupply,
                     circulating_supply |-> 0,
                     transfer_fee_basis_points |-> TransferFeeBasisPoints]
    /\ supply = [m \in Mints |-> IF m = "OTHER" THEN PreExisting ELSE 0]
    /\ balance = [a \in TokenAccounts |-> IF a = "foreign" THEN PreExisting ELSE 0]
    /\ token_last = [op |-> "initialize_token", mint |-> "IAMAI",
                     amount |-> LiveSupply, err |-> "Ok", fee |-> 0, sent |-> 0,
                     pre_info |-> NoTokenInfo, pre_balance |-> balance,
                     pre_supply |-> supply]
    /\ token_calls = 1
    /\ GovInit
    /\ MarketInit
    /\ StakeInit

GovLiveSpec ==
    GovLiveInit
    /\ [][GovNext /\ UNCHANGED <<overflow_checks, token_vars, market_vars, stake_vars>>]_vars

----------------------------------------------------------------------------
(* iamai_token: claims *)

TokenCalled(op) == token_last.op = op /\ token_last.pre_info.is_initialized

\* C1: after any sequence of initialize_token, mint_tokens and burn_tokens
\* calls, circulating_supply is never greater than total_supply and never
\* wraps below zero.
C1_SupplyWithinCap ==
    /\ token_info.circulating_supply >= 0
    /\ token_info.circulating_supply <= token_info.total_supply

\* C2: mint_tokens(amount) fails with ExceedsMaxSupply and leaves
\* circulating_supply unchanged whenever circulating_supply + amount >
\* total_supply; otherwise (the mint primitive accepting the amount) it
\* increases circulating_supply by exactly amount.
C2_MintChecksCap ==
    TokenCalled("mint_tokens") =>
        LET pre == token_last.pre_info
            amount == token_last.amount
        IN  IF pre.circulating_supply + amount > pre.total_supply
            THEN /\ token_last.err = "ExceedsMaxSupply"
                 /\ token_info.circulating_supply = pre.circulating_supply
            ELSE MintToErr(token_last.pre_supply, token_last.pre_balance,
                           token_last.mint, HolderOf(token_last.mint), amount) = "Ok"
                 => /\ token_last.err = "Ok"
                    /\ token_info.circulating_supply = pre.circulating_supply + amount

\* C3: burn_tokens(amount) fails with CirculationUnderflow, leaving
\* circulating_supply unchanged, whenever amount > circulating_supply;
\* otherwise (the burn primitive accepting the amount) it decreases
\* circulating_supply by exactly amount.
C3_BurnChecksUnderflow ==
    TokenCalled("burn_tokens") =>
        LET pre == token_last.pre_info
            amount == token_last.amount
        IN  IF amount > pre.circulating_supply
            THEN /\ token_last.err = "CirculationUnderflow"
                 /\ token_info.circulating_supply = pre.circulating_supply
            ELSE BurnErr(token_last.pre_supply, token_last.pre_balance,
                         token_last.mint, HolderOf(token_last.mint), amount) = "Ok"
                 => /\ token_last.err = "Ok"
                    /\ token_info.circulating_supply = pre.circulating_supply - amount

\* C4: for every amount in [0, 2^63) that the source account holds,
\* transfer_with_fee computes fee = floor(amount * fee_bps / 10000) without
\* overflow and sent = amount - fee, fee + sent = amount; the treasury
\* receives fee and the recipient receives sent.
C4_FeeExact ==
    ( /\ TokenCalled("transfer_with_fee")
      /\ token_last.amount < HalfRange
      /\ token_last.pre_balance["holder"] >= token_last.amount )
    => LET amount == token_last.amount
           fee == (amount * token_last.pre_info.transfer_fee_basis_points)
                      \div BpsDenominator
       IN  /\ token_last.err = "Ok"
           /\ token_last.fee = fee
           /\ token_last.sent = amount - fee
           /\ token_last.fee + token_last.sent = amount
           /\ balance["treasury"] = token_last.pre_balance["treasury"] + fee
           /\ balance["recipient"] = token_last.pre_balance["recipient"] + (amount - fee)

----------------------------------------------------------------------------
(* iamai_governance: claims *)

RECURSIVE SumPower(_, _)
\* sum of voting_power over the VoteRecords of proposal p of the voters in S
SumPower(p, S) ==
    IF S = {} THEN 0
    ELSE LET v == CHOOSE x \in S : TRUE
         IN  vote_records[p][v].voting_power + SumPower(p, S \ {v})

VotersFor(p) == {v \in Voters : vote_records[p][v].has_voted /\ vote_records[p][v].support}

VotersAgainst(p) == {v \in Voters : vote_records[p][v].has_voted /\ ~vote_records[p][v].support}

\* the balance of the token account the voter owns
OwnBalance(voter) ==
    TokenAmount(CHOOSE a \in UserTokenAccounts : TokenOwner(a) = voter)

GovCalled(op) == gov_last.op = op /\ gov_last.pre_proposal.exists

CallUnchanged ==
    /\ proposals[gov_last.proposal] = gov_last.pre_proposal
    /\ gov_last.voter \in Voters =>
           vote_records[gov_last.proposal][gov_last.voter] = gov_last.pre_record

InWindow(proposal) ==
    /\ proposal.status = "Active"
    /\ proposal.start_time <= now
    /\ now <= proposal.end_time

\* C5: after a successful vote by a voter on a proposal, every later
\* vote_on_proposal by the same voter on the same proposal fails with
\* AlreadyVoted and changes neither the VoteRecord nor the tallies.
C5_SecondVoteAlreadyVoted ==
    (GovCalled("vote_on_proposal") /\ gov_last.pre_record.has_voted)
    => /\ gov_last.err = "AlreadyVoted"
       /\ CallUnchanged

\* C6: every Proposal satisfies total_votes = votes_for + votes_against, and
\* each tally equals the sum of voting_power of the matching VoteRecords.
C6_TalliesMatchRecords ==
    \A p \in Proposals :
        proposals[p].exists =>
            /\ proposals[p].total_votes = proposals[p].votes_for + proposals[p].votes_against
            /\ proposals[p].votes_for = SumPower(p, VotersFor(p))
            /\ proposals[p].votes_against = SumPower(p, VotersAgainst(p))
            /\ proposals[p].total_votes = SumPower(p, VotersFor(p) \cup VotersAgainst(p))

\* C7: vote_on_proposal succeeds only while the status is Active and
\* start_time <= now <= end_time; outside that window it fails with
\* ProposalNotActive or VotingPeriodEnded and changes no tally, so no vote
\* is counted after the proposal has been finalized.
C7_VoteOnlyInWindow ==
    GovCalled("vote_on_proposal") =>
        /\ gov_last.err = "Ok" => InWindow(gov_last.pre_proposal)
        /\ ~InWindow(gov_last.pre_proposal) =>
               /\ gov_last.err \in {"ProposalNotActive", "VotingPeriodEnded"}
               /\ CallUnchanged

\* C8: a vote whose voting_power is greater than the voter's own token
\* balance fails with InsufficientVotingPower (when the proposal is open and
\* the voter has not voted) and counts nothing; a successful vote never adds
\* more than the voter's balance.
C8_PowerWithinOwnBalance ==
    GovCalled("vote_on_proposal") =>
        /\ gov_last.err = "Ok" => gov_last.voting_power <= OwnBalance(gov_last.voter)
        /\ ( /\ gov_last.voting_power > OwnBalance(gov_last.voter)
             /\ InWindow(gov_last.pre_proposal)
             /\ ~gov_last.pre_record.exists )
           => /\ gov_last.err = "InsufficientVotingPower"
              /\ CallUnchanged

StatusStep(from, to) ==
    \/ from = to
    \/ from = "Active" /\ to \in {"Passed", "Rejected"}
    \/ from = "Passed" /\ to = "Executed"

\* C9: a Proposal's status only ever moves Active -> Passed, Active ->
\* Rejected or Passed -> Executed; Rejected and Executed are terminal and no
\* operation returns a proposal to Active.
C9_StatusMonotone ==
    [][\A p \in Proposals :
          proposals[p].exists =>
              /\ proposals'[p].exists
              /\ StatusStep(proposals[p].status, proposals'[p].status)]_vars

C9_Witness ==
    \E p \in Proposals :
        /\ proposals[p].status = "Executed"
        /\ gov_last.op = "create_proposal"
        /\ gov_last.err = "AccountAlreadyInUse"

\* C10: finalize_proposal succeeds only when the status is Active and
\* now > end_time, fails with VotingPeriodNotEnded when now <= end_time, and
\* every finalize after a successful one fails with ProposalNotActive without
\* changing status, quorum_reached or execution_time.
C10_FinalizeOnce ==
    GovCalled("finalize_proposal") =>
        LET pre == gov_last.pre_proposal
            post == proposals[gov_last.proposal]
        IN  /\ gov_last.err = "Ok" => (pre.status = "Active" /\ now > pre.end_time)
            /\ (pre.status = "Active" /\ now <= pre.end_time) =>
                   (gov_last.err = "VotingPeriodNotEnded" /\ post = pre)
            /\ pre.status # "Active" =>
                   /\ gov_last.err = "ProposalNotActive"
                   /\ post.status = pre.status
                   /\ post.quorum_reached = pre.quorum_reached
                   /\ post.execution_time = pre.execution_time

C10_Witness ==
    /\ GovCalled("finalize_proposal")
    /\ gov_last.pre_proposal.status = "Passed"
    /\ gov_last.err = "ProposalNotActive"
    /\ now > gov_last.pre_proposal.execution_time

\* the quorum the live token supply requires
LiveRequiredQuorum ==
    (token_info.total_supply * governance.quorum_percentage) \div 100

\* C11: after a successful finalize_proposal, quorum_reached =
\* (total_votes >= floor(total_supply * quorum_pct / 100)) with total_supply
\* the live TokenInfo.total_supply of the governed token.
C11_QuorumFromLiveSupply ==
    (GovCalled("finalize_proposal") /\ gov_last.err = "Ok")
    => proposals[gov_last.proposal].quorum_reached
           = (gov_last.pre_proposal.total_votes >= LiveRequiredQuorum)

C13_ExecuteOnce ==
    GovCalled("execute_proposal") =>
        LET pre == gov_last.pre_proposal
            post == proposals[gov_last.proposal]
        IN  /\ gov_last.err = "Ok" =>
                   /\ pre.status = "Passed"
                   /\ now >= pre.execution_time
                   /\ post = [pre EXCEPT !.status = "Executed"]
            /\ (pre.status = "Passed" /\ now < pre.execution_time) =>
                   (gov_last.err = "ExecutionDelayNotMet" /\ post = pre)
            /\ (pre.status = "Passed" /\ now >= pre.execution_time) =>
                   gov_last.err = "Ok"
            /\ pre.status # "Passed" =>
                   (gov_last.err = "ProposalNotPassed" /\ post = pre)

C13_Witness ==
    /\ GovCalled("execute_proposal")
    /\ gov_last.pre_proposal.status = "Executed"
    /\ gov_last.err = "ProposalNotPassed"
    /\ governance.execution_delay > 0

\* C14: create_proposal fails with InsufficientTokensForProposal, creating
\* nothing and leaving proposal_count unchanged, when the proposer's token
\* balance is below min_tokens_for_proposal; otherwise it creates an Active
\* proposal with zero tallies, start_time = now, end_time = now +
\* voting_period and increments proposal_count, which always equals the
\* number of proposals created.
C14_CreateNeedsOwnTokens ==
    /\ governance.proposal_count = Cardinality({p \in Proposals : proposals[p].exists})
    /\ ( /\ gov_last.op = "create_proposal"
         /\ governance.is_initialized
         /\ ~gov_last.pre_proposal.exists )
       => LET post == proposals[gov_last.proposal]
          IN  IF OwnBalance(gov_last.voter) < governance.min_tokens_for_proposal
              THEN /\ gov_last.err = "InsufficientTokensForProposal"
                   /\ post = gov_last.pre_proposal
                   /\ governance.proposal_count = gov_last.pre_count
              ELSE /\ gov_last.err = "Ok"
                   /\ post.exists /\ post.status = "Active"
                   /\ post.votes_for = 0 /\ post.votes_against = 0
                   /\ post.total_votes = 0
                   /\ post.start_time = now
                   /\ post.end_time = now + gov_last.voting_period
                   /\ governance.proposal_count = gov_last.pre_count + 1

----------------------------------------------------------------------------
(* iamai_marketplace: claims *)

MarketCalled(op) == market_last.op = op /\ market_last.pre_listing.exists

\* the call left the marketplace, the listing, the caller's PurchaseRecord and
\* ModelReview and every wallet as they were
MarketUnchanged ==
    /\ marketplace = market_last.pre_marketplace
    /\ listings[market_last.listing] = market_last.pre_listing
    /\ purchase_records[market_last.listing][market_last.user] = market_last.pre_record
    /\ model_reviews[market_last.listing][market_last.user] = market_last.pre_review
    /\ wallet = market_last.pre_wallet

\* floor(price * royalty_bps / 10000) over the integers
ExactRoyalty(price, royalty_bps) == (price * royalty_bps) \div RoyaltyDenominator

\* C15: for every listing price and every royalty rate the marketplace can
\* be initialised with, purchase_model computes royalty =
\* floor(price * royalty_bps / 10000) and creator_amount = price - royalty
\* without overflow or underflow, royalty + creator_amount = price, and the
\* buyer is debited exactly price.
C15_RoyaltySplitExact ==
    ( /\ MarketCalled("purchase_model")
      /\ market_last.pre_marketplace.exists
      /\ ~market_last.pre_record.exists
      /\ market_last.pre_listing.is_active )
    => LET price == market_last.pre_listing.price
           royalty == ExactRoyalty(price,
                          market_last.pre_marketplace.royalty_percentage)
       IN  /\ market_last.err # "Panic"
           /\ market_last.royalty_amount = royalty
           /\ market_last.creator_amount = price - royalty
           /\ market_last.royalty_amount + market_last.creator_amount = price
           /\ ( /\ market_last.err = "Ok"
                /\ market_last.from # market_last.creator_account
                /\ market_last.from # market_last.treasury_account )
              => wallet[market_last.from]
                     = market_last.pre_wallet[market_last.from] - price

\* C16: purchase_model is all-or-nothing: when the listing is inactive
\* (ModelNotActive) or a transfer fails (the royalty transfer succeeded and
\* the creator transfer did not, say), no balance, no PurchaseRecord and none
\* of sales_count, total_revenue, total_sales, total_volume changes; on
\* success all of them are updated together.
C16_PurchaseAllOrNothing ==
    MarketCalled("purchase_model") =>
        LET pre == market_last.pre_listing
            post == listings[market_last.listing]
            price == pre.price
        IN  /\ ( /\ market_last.pre_marketplace.exists
                 /\ ~market_last.pre_record.exists
                 /\ ~pre.is_active )
               => market_last.err = "ModelNotActive"
            /\ IF market_last.err # "Ok"
               THEN MarketUnchanged
               ELSE /\ purchase_records[market_last.listing][market_last.user].exists
                    /\ purchase_records[market_last.listing][market_last.user].has_access
                    /\ post.sales_count = pre.sales_count + 1
                    /\ post.total_revenue = pre.total_revenue + price
                    /\ marketplace.total_sales
                           = market_last.pre_marketplace.total_sales + 1
                    /\ marketplace.total_volume
                           = market_last.pre_marketplace.total_volume + price
                    /\ wallet = TransferBalance(
                           IF market_last.royalty_amount > 0
                           THEN TransferBalance(market_last.pre_wallet,
                                    market_last.from, market_last.treasury_account,
                                    market_last.royalty_amount)
                           ELSE market_last.pre_wallet,
                           market_last.from, market_last.creator_account,
                           market_last.creator_amount)

C16_Witness ==
    /\ MarketCalled("purchase_model")
    /\ market_last.err = "InsufficientFunds"
    /\ market_last.royalty_amount > 0
    /\ market_last.pre_wallet[market_last.from] >= market_last.royalty_amount
    /\ market_last.from # market_last.treasury_account

\* C17: there is at most one PurchaseRecord per (buyer, model): a second
\* purchase_model by the same buyer for the same listing creates no other
\* record, does not debit the buyer again and does not increment sales_count,
\* total_sales, total_revenue or total_volume.
C17_OnePurchasePerBuyer ==
    /\ \A m \in Listings :
           listings[m].sales_count
               = Cardinality({u \in MarketUsers : purchase_records[m][u].exists})
    /\ ( /\ MarketCalled("purchase_model")
         /\ market_last.pre_record.exists )
       => (market_last.err # "Ok" /\ MarketUnchanged)

C17_Witness ==
    /\ MarketCalled("purchase_model")
    /\ market_last.pre_record.exists
    /\ market_last.pre_listing.is_active
    /\ WalletOwner(market_last.from) = market_last.user
    /\ market_last.pre_wallet[market_last.from] >= market_last.pre_listing.price
    /\ market_last.pre_listing.price > 0
    /\ market_last.err = "AccountAlreadyInUse"

\* the caller of the last call held a PurchaseRecord with has_access = true
HadAccess == market_last.pre_record.exists /\ market_last.pre_record.has_access

\* C18: rate_model fails with InvalidRating when rating is outside [1, 5]
\* and with NoAccessToModel when the caller has no PurchaseRecord with
\* has_access = true; in both cases no ModelReview is created and rating_sum
\* and rating_count are unchanged.
C18_RateModelErrors ==
    ( /\ MarketCalled("rate_model")
      /\ ~market_last.pre_review.exists )
    => LET bad_rating == ~(market_last.rating >= 1 /\ market_last.rating <= 5)
       IN  /\ (bad_rating /\ HadAccess) => market_last.err = "InvalidRating"
           /\ (~bad_rating /\ ~HadAccess) => market_last.err = "NoAccessToModel"
           /\ (bad_rating /\ ~HadAccess) =>
                  market_last.err \in {"InvalidRating", "NoAccessToModel"}
           /\ (bad_rating \/ ~HadAccess) => MarketUnchanged

\* C19: in every reachable state each ModelListing's rating_count is at most
\* the number of PurchaseRecords with has_access = true for that listing, and
\* equals the number of ModelReviews of the listing.
C19_RatingCountBounded ==
    \A m \in Listings :
        /\ listings[m].rating_count
               <= Cardinality({u \in MarketUsers :
                                  /\ purchase_records[m][u].exists
                                  /\ purchase_records[m][u].has_access})
        /\ listings[m].rating_count
               = Cardinality({u \in MarketUsers : model_reviews[m][u].exists})

C19_Witness ==
    /\ MarketCalled("rate_model")
    /\ market_last.pre_review.exists
    /\ market_last.rating = 5
    /\ market_last.err = "AccountAlreadyInUse"
    /\ listings[market_last.listing].rating_count = 1

\* C20: update_model_status changes is_active only when called by the
\* listing's creator; another signer fails with Unauthorized and leaves
\* is_active and every other listing field unchanged.
C20_OnlyCreatorUpdatesStatus ==
    /\ MarketCalled("update_model_status") =>
           IF market_last.user = market_last.pre_listing.creator
           THEN /\ market_last.err = "Ok"
                /\ listings[market_last.listing]
                       = [market_last.pre_listing EXCEPT
                             !.is_active = market_last.is_active]
           ELSE /\ market_last.err = "Unauthorized"
                /\ listings[market_last.listing] = market_last.pre_listing
    /\ (MarketCalled("purchase_model") \/ MarketCalled("rate_model")) =>
           listings[market_last.listing].is_active
               = market_last.pre_listing.is_active

C20_Witness ==
    /\ MarketCalled("update_model_status")
    /\ market_last.user # market_last.pre_listing.creator
    /\ market_last.is_active # market_last.pre_listing.is_active
    /\ market_last.err = "Unauthorized"

----------------------------------------------------------------------------
(* iamai_governance: the outcome of a proposal *)

\* a passed proposal carries the tallies that justify it, and an executed
\* one has waited for its execution delay
OutcomeJustified ==
    \A p \in Proposals :
        (proposals[p].exists /\ proposals[p].status \in {"Passed", "Executed"})
        => /\ proposals[p].quorum_reached
           /\ proposals[p].votes_for > proposals[p].votes_against
           /\ proposals[p].votes_for > 0
           /\ proposals[p].execution_time
                  > proposals[p].end_time + governance.execution_delay
           /\ proposals[p].status = "Executed"
                  => now >= proposals[p].execution_time

TalliesFrozen ==
    \A p \in Proposals :
        (proposals[p].exists /\ proposals[p].status # "Active")
        => /\ proposals'[p].votes_for = proposals[p].votes_for
           /\ proposals'[p].votes_against = proposals[p].votes_against
           /\ proposals'[p].total_votes = proposals[p].total_votes
           /\ proposals'[p].quorum_reached = proposals[p].quorum_reached

----------------------------------------------------------------------------
(* iamai_staking: claims *)

\* the last call was op on an existing UserStake, with an existing pool and
\* an existing tier account
StakeCalled(op) ==
    /\ stake_last.op = op
    /\ stake_last.pre_pool.is_initialized
    /\ stake_last.pre_tiers[stake_last.tier].exists
    /\ stake_last.pre_stake.exists

\* the call left the pool, the tiers, the caller's UserStake and every token
\* account as they were
StakeUnchanged ==
    /\ staking_pool = stake_last.pre_pool
    /\ staking_tiers = stake_last.pre_tiers
    /\ user_stakes[stake_last.user] = stake_last.pre_stake
    /\ stake_wallet = stake_last.pre_wallet

RECURSIVE SumActive(_)
SumActive(S) ==
    IF S = {} THEN 0
    ELSE LET u == CHOOSE x \in S : TRUE
         IN  (IF user_stakes[u].exists /\ user_stakes[u].is_active
              THEN user_stakes[u].amount ELSE 0) + SumActive(S \ {u})

\* C21: in every reachable state StakingPool.total_staked equals the sum of
\* amount over the UserStakes of the pool with is_active = true.
C21_TotalStakedIsSum == staking_pool.total_staked = SumActive(Stakers)

\* C22: in every reachable state each StakingTier.total_staked is at most
\* the total_staked of its pool and never underflows, whichever tier account
\* is passed to stake_tokens and unstake_tokens.
C22_TierWithinPool ==
    /\ \A t \in Tiers :
           staking_tiers[t].exists =>
               staking_tiers[t].total_staked <= staking_pool.total_staked
    /\ (StakeCalled("unstake_tokens") /\ stake_last.err = "Ok") =>
           stake_last.pre_tiers[stake_last.tier].total_staked
               >= stake_last.pre_stake.amount

InactiveStakeRefused ==
    /\ ( /\ (StakeCalled("unstake_tokens") \/ StakeCalled("claim_rewards"))
         /\ ~stake_last.pre_stake.is_active )
       => /\ stake_last.err = "StakeNotActive"
          /\ stake_last.paid = 0
          /\ StakeUnchanged
    /\ ( /\ stake_last.op = "stake_tokens"
         /\ stake_last.pre_stake.exists )
       => (stake_last.err # "Ok" /\ StakeUnchanged)

InactiveStakeFrozen ==
    \A u \in Stakers :
        (user_stakes[u].exists /\ ~user_stakes[u].is_active)
        => user_stakes'[u] = user_stakes[u]

\* C23: a UserStake becomes inactive exactly once and is never reactivated:
\* after a successful unstake_tokens is_active stays false, every later
\* unstake_tokens or claim_rewards on it fails with StakeNotActive and pays
\* nothing, and no operation, a new stake_tokens included, sets is_active
\* back to true.
C23_InactiveForever == []InactiveStakeRefused /\ [][InactiveStakeFrozen]_vars

C23_Witness ==
    /\ stake_last.op = "stake_tokens"
    /\ stake_last.pre_stake.exists
    /\ ~stake_last.pre_stake.is_active
    /\ stake_last.pre_wallet[stake_last.user_token_account] >= stake_last.amount
    /\ StakeAccountOwner(stake_last.user_token_account) = stake_last.user
    /\ stake_last.err = "AccountAlreadyInUse"

\* floor(amount * apy_bps * elapsed / (10000 * annual_seconds)) of a stake in
\* the tier it recorded, over the integers
ExactGross(user_stake, tiers, current_time) ==
    MulDiv(user_stake.amount,
           tiers[user_stake.tier].apy_basis_points
               * StakingDuration(user_stake, current_time),
           RewardDenominator)

\* C24: rewards are never paid twice: each claim_rewards or unstake_tokens
\* pays exactly floor(amount * apy_bps * elapsed / (10000 * 31536000)) minus
\* rewards_claimed so far, so the total paid to a stake equals its gross
\* accrued reward at the last payout and never exceeds the gross reward of
\* the full term, and the subtraction never underflows.
C24_RewardsPaidOnce ==
    ( /\ (StakeCalled("claim_rewards") \/ StakeCalled("unstake_tokens"))
      /\ stake_last.pre_stake.is_active )
    => LET pre == stake_last.pre_stake
           gross == ExactGross(pre, stake_last.pre_tiers, now)
           full == ExactGross(pre, stake_last.pre_tiers, pre.end_time)
       IN  /\ GrossRewards(pre, stake_last.pre_tiers[stake_last.tier], now)
                  >= pre.rewards_claimed
           /\ stake_last.err = "Ok" =>
                  /\ stake_last.rewards = gross - pre.rewards_claimed
                  /\ user_stakes[stake_last.user].rewards_claimed = gross
                  /\ gross <= full

\* the claimable reward of a stake in its own tier at current_time
Claimable(user_stake, current_time) ==
    calculate_rewards(user_stake, staking_tiers[user_stake.tier], current_time)

\* C25: for a stake with no intervening claim, the claimable reward computed
\* by calculate_rewards is zero at elapsed = 0, non-decreasing as now advances
\* up to end_time, and constant for every now >= end_time.
C25_RewardsMonotone ==
    \A u \in Stakers :
        LET user_stake == user_stakes[u]
        IN  (user_stake.exists /\ user_stake.is_active
             /\ user_stake.rewards_claimed = 0)
            => /\ Claimable(user_stake, user_stake.start_time) = 0
               /\ \A t \in user_stake.start_time .. (user_stake.end_time + 1) :
                      /\ Claimable(user_stake, t) <= Claimable(user_stake, t + 1)
                      /\ t >= user_stake.end_time =>
                             Claimable(user_stake, t)
                                 = Claimable(user_stake, user_stake.end_time)

\* C26: unstake_tokens returns the principal amount when now >= end_time and
\* amount - floor(amount * early_unstake_penalty_bps / 10000) when
\* now < end_time and early_unstake = true, for every penalty rate the pool
\* can be initialised with (no underflow); when now < end_time and
\* early_unstake = false it fails with StakingPeriodNotComplete and changes
\* nothing.  The claimable reward is paid on top of the principal.
C26_PrincipalReturned ==
    (StakeCalled("unstake_tokens") /\ stake_last.pre_stake.is_active)
    => LET pre == stake_last.pre_stake
           penalty == MulDiv(pre.amount,
                             stake_last.pre_pool.early_unstake_penalty,
                             PenaltyDenominator)
       IN  IF now >= pre.end_time
           THEN stake_last.err = "Ok" =>
                    stake_last.paid = pre.amount + stake_last.rewards
           ELSE IF stake_last.early_unstake
           THEN /\ stake_last.penalty = penalty
                /\ penalty <= pre.amount
                /\ stake_last.err = "Ok" =>
                       stake_last.paid = pre.amount - penalty + stake_last.rewards
           ELSE /\ stake_last.err = "StakingPeriodNotComplete"
                /\ StakeUnchanged

\* C27: every staking operation is all-or-nothing: when the token transfer
\* inside stake_tokens, claim_rewards or unstake_tokens fails, the totals of
\* the pool and the tier, total_rewards_distributed and the UserStake are
\* exactly as before the call, although the code writes them before the
\* transfer.
C27_StakingAllOrNothing ==
    ( /\ stake_last.op \in {"stake_tokens", "claim_rewards", "unstake_tokens"}
      /\ stake_last.err # "Ok" )
    => StakeUnchanged

C27_Witness ==
    /\ StakeCalled("unstake_tokens")
    /\ stake_last.pre_stake.is_active
    /\ stake_last.err = "InsufficientFunds"
    /\ stake_last.pre_pool.total_staked >= stake_last.pre_stake.amount
    /\ stake_last.pre_tiers[stake_last.tier].total_staked
           >= stake_last.pre_stake.amount

\* C28: vault solvency: after any sequence of stake_tokens, claim_rewards and
\* unstake_tokens the vault's token balance is at least pool.total_staked,
\* so every active stake whose term has completed can be unstaked
\* successfully.
C28_VaultSolvent ==
    /\ stake_wallet["vault"] >= staking_pool.total_staked
    /\ ( /\ StakeCalled("unstake_tokens")
         /\ stake_last.pre_stake.is_active
         /\ stake_last.tier = stake_last.pre_stake.tier
         /\ now >= stake_last.pre_stake.end_time )
       => stake_last.err = "Ok"

====
